---- MODULE Spec2Model ----
(***************************************************************************)
(* Multi-server configuration store of n8n-monitor (services/storage.ts):  *)
(* the server registry, the active-server pointer, the legacy migration    *)
(* and the effective-config resolver, over expo-secure-store.              *)
(*                                                                         *)
(* Every SecureStore call is one atomic step; the synchronous code that    *)
(* follows an await runs in the same step as the store call it awaited.    *)
(* A call to an exported function is one action that issues the function's *)
(* first store call; the remaining awaits are the step actions.            *)
(***************************************************************************)
EXTENDS Integers, Sequences, FiniteSets, TLC

\* ------------------------------------------------------------------ bounds
MaxCalls == 3          \* calls issued in one behaviour of Spec
MaxConcCalls == 2      \* calls issued in one behaviour of SpecConc
NumProcs == 2          \* callers that may be in flight together (SpecConc)
MaxFailCalls == 2      \* calls issued in one behaviour of SpecFail
MaxTyped == 1          \* times the form is filled in one behaviour of SpecForm
MaxSetupTyped == 1     \* times the form is filled in one behaviour of SpecSetup
MaxStoreFaults == 1    \* store calls that reject in one behaviour of SpecSetup or SpecIndex
MaxQueries == 2        \* times the workflows query runs in one behaviour of SpecIndex

Procs    == 1..NumProcs
SeqProcs == {1}        \* the single caller of the non-overlapping Spec

\* ------------------------------------------------------------------ values
Absent == "<absent>"       \* getItemAsync -> null / property not present
Undef  == "<undefined>"    \* own property holding undefined

\* if (v), v || d, v && w on strings
Truthy(v) == v \notin {Absent, Undef, ""}

\* uuidv4(): the n-th identifier generated; never repeats
UUIDS == <<"u1", "u2", "u3", "u4", "u5", "u6", "u7", "u8", "u9">>
uuidv4(n) == UUIDS[n + 1]

SuppliedIds == {"x"}                       \* ids a caller holds that were never generated here
LegacyPairs == { <<Absent, Absent>>, <<"https://old.test", "oldkey">>,
                 <<"", "oldkey">>, <<"https://old.test", Absent>> }
NameInputs  == {Absent, "A"}
UrlInputs   == {"https://a.test", "https://b.test"}
KeyInputs   == {"k"}

NoEntry == [id |-> Absent, name |-> Absent, serverUrl |-> Absent, apiKey |-> Absent]

\* ------------------------------------------------------------------ JSON
\* JSON.stringify drops properties whose value is undefined
StripUndefined(e) == [f \in DOMAIN e |-> IF e[f] = Undef THEN Absent ELSE e[f]]

JSONstringify(servers) ==
  [kind |-> "json", list |-> [i \in 1..Len(servers) |-> StripUndefined(servers[i])]]

JSONparse(json) == json.list

NoItem == [kind |-> "absent", list |-> <<>>]

\* a stored value that is not JSON text
Unparsable == [kind |-> "text", list |-> <<>>]

\* JSON.parse(item) returns (it throws on anything else)
Parsable(item) == item.kind = "json"

\* variant: an empty array counts as no list
HasServersNonEmpty(item) == item.kind # "absent" /\ Len(item.list) > 0

\* if (serversJson): a stored JSON text is a non-empty string, null is falsy
HasServersJson(item) == item.kind # "absent"

\* ------------------------------------------------------------------ arrays
\* variant: the predicate never matches
findIndexNoMatch(servers, id) == 0

\* servers.findIndex(s => s.id === id), 0 standing for -1
findIndex(servers, id) ==
  IF \E i \in 1..Len(servers) : servers[i].id = id
  THEN CHOOSE i \in 1..Len(servers) :
         /\ servers[i].id = id
         /\ \A j \in 1..(i - 1) : servers[j].id # id
  ELSE 0

\* servers.filter(s => s.id !== id)
RECURSIVE filterOut(_, _)
filterOut(servers, id) ==
  IF servers = <<>> THEN <<>>
  ELSE IF Head(servers).id # id
       THEN <<Head(servers)>> \o filterOut(Tail(servers), id)
       ELSE filterOut(Tail(servers), id)

\* variant: the spread operands are swapped, the stored properties win
SpreadStoredWins(a, b) == [f \in DOMAIN a |-> IF a[f] # Absent THEN a[f] ELSE b[f]]

\* { ...a, ...b }: own properties of b, undefined ones included, win
Spread(a, b) == [f \in DOMAIN a |-> IF b[f] # Absent THEN b[f] ELSE a[f]]

\* v || d
OrDefault(v, d) == IF Truthy(v) THEN v ELSE d

Ids(servers) == { servers[i].id : i \in 1..Len(servers) }


\* ------------------------------------------------------------------ form text
\* What the user types is a sequence of tokens: " " is white space, "/" a
\* slash, every other token a run of characters without slash or white space.
Schemes     == {"https:", "http:", "HTTPS:", "ftp:"}
Authorities == {"n8n.example.com", "N8N.Example.com", "host:5678", "host:443",
                "bad.example.com", "api", "host:abc"}
Suffixes ==
  { <<>>, <<"/">>, <<"/", "/">>,
    <<"/", "api", "/", "v1">>, <<"/", "api", "/", "v1", "/">>,
    <<"/", "api", "/", "v1", "/", "/">>, <<"/", "v1">>,
    <<"/", "workflow", "/", "abc123", "/", "extra">>, <<"/", "workflow", "/", "abc123">>,
    <<"/", "workflow", "/">>, <<"/", "home", "/", "workflows">>, <<"?q=1">> }
Pads == {<<>>, <<" ">>}

\* String.prototype.trim
RECURSIVE trimStart(_)
trimStart(s) == IF s # <<>> /\ Head(s) = " " THEN trimStart(Tail(s)) ELSE s

RECURSIVE trimEnd(_)
trimEnd(s) ==
  IF s # <<>> /\ s[Len(s)] = " " THEN trimEnd(SubSeq(s, 1, Len(s) - 1)) ELSE s

trim(s) == trimEnd(trimStart(s))

\* the string value of a trimmed one-word text ('' when nothing is left)
Str(s) == IF s = <<>> THEN "" ELSE s[1]

\* lower case of a token
Lower(t) ==
  CASE t = "HTTPS:" -> "https:"
    [] t = "HTTP:" -> "http:"
    [] t = "N8N.Example.com" -> "n8n.example.com"
    [] OTHER -> t

EndsWith(s, t) == Len(s) >= Len(t) /\ SubSeq(s, Len(s) - Len(t) + 1, Len(s)) = t
DropLast(s, n) == SubSeq(s, 1, Len(s) - n)

\* /^https?:\/\/.+/i.test(s)
urlPatternTest(s) ==
  /\ Len(s) >= 4
  /\ Lower(s[1]) \in {"http:", "https:"}
  /\ s[2] = "/" /\ s[3] = "/"

\* s.replace(/\/$/, '')
stripTrailingSlash(s) == IF EndsWith(s, <<"/">>) THEN DropLast(s, 1) ELSE s

\* s.replace(/\/api\/v1\/?$/, '')
stripApiPath(s) ==
  IF EndsWith(s, <<"/", "api", "/", "v1", "/">>) THEN DropLast(s, 5)
  ELSE IF EndsWith(s, <<"/", "api", "/", "v1">>) THEN DropLast(s, 4)
  ELSE s

\* /\/workflow\/[^/]+/ matches at position i
workflowAt(s, i) ==
  /\ i + 3 <= Len(s)
  /\ s[i] = "/" /\ s[i + 1] = "workflow" /\ s[i + 2] = "/" /\ s[i + 3] # "/"

\* s.replace(/\/workflow\/[^/]+.*$/, ''): from the leftmost match to the end
stripWorkflowPath(s) ==
  IF \E i \in 1..Len(s) : workflowAt(s, i)
  THEN SubSeq(s, 1, (CHOOSE i \in 1..Len(s) :
                       workflowAt(s, i) /\ \A j \in 1..(i - 1) : ~workflowAt(s, j)) - 1)
  ELSE s

\* URL parsing, http and https: the slashes after the scheme are skipped
RECURSIVE skipSlashes(_)
skipSlashes(s) == IF s # <<>> /\ Head(s) = "/" THEN skipSlashes(Tail(s)) ELSE s

\* url.host of an authority: lower case, the scheme's default port dropped;
\* a port that is not a number does not parse
InvalidHost == "<invalid>"
hostOf(protocol, authority) ==
  CASE authority = "host:abc" -> InvalidHost
    [] authority = "host:443" -> IF protocol = "https:" THEN "host" ELSE "host:443"
    [] authority \in {"?q=1", " "} -> InvalidHost
    [] OTHER -> Lower(authority)

\* new URL(s): [ok |-> FALSE] when it throws
newURL(s) ==
  LET protocol == Lower(s[1])
      rest     == skipSlashes(Tail(s))
  IN IF rest = <<>> \/ hostOf(protocol, rest[1]) = InvalidHost
     THEN [ok |-> FALSE, protocol |-> protocol, host |-> InvalidHost]
     ELSE [ok |-> TRUE, protocol |-> protocol, host |-> hostOf(protocol, rest[1])]

\* protocol, host and the text of `${url.protocol}//${url.host}`
Origins ==
  { <<"https:", "n8n.example.com", "https://n8n.example.com">>,
    <<"http:",  "n8n.example.com", "http://n8n.example.com">>,
    <<"https:", "host:5678", "https://host:5678">>,
    <<"http:",  "host:5678", "http://host:5678">>,
    <<"https:", "host", "https://host">>,
    <<"http:",  "host:443", "http://host:443">>,
    <<"https:", "bad.example.com", "https://bad.example.com">>,
    <<"http:",  "bad.example.com", "http://bad.example.com">>,
    <<"https:", "api", "https://api">>,
    <<"http:",  "api", "http://api">>,
    <<"https:", "old.test", "https://old.test">>,
    <<"https:", "a.test", "https://a.test">>,
    <<"https:", "b.test", "https://b.test">> }

Origin(protocol, host) == (CHOOSE o \in Origins : o[1] = protocol /\ o[2] = host)[3]

\* the tokens of a stored URL
Tokens(text) ==
  LET o == CHOOSE o \in Origins : o[3] = text IN <<o[1], "/", "/", o[2]>>

\* variant: the three replacements only, what is left of the path stays
cleanUrlOfUnreduced(serverUrl) ==
  LET stripped == stripWorkflowPath(stripApiPath(stripTrailingSlash(trim(serverUrl))))
      url      == newURL(stripped)
  IN IF url.ok
     THEN [ok |-> TRUE, text |-> IF skipSlashes(Tail(stripped)) = <<url.host>>
                                 THEN Origin(url.protocol, url.host) ELSE "<with path>"]
     ELSE [ok |-> FALSE, text |-> ""]

\* handleSave, lines 229-241: the URL that goes to saveServer
cleanUrlOf(serverUrl) ==
  LET stripped == stripWorkflowPath(stripApiPath(stripTrailingSlash(trim(serverUrl))))
      url      == newURL(stripped)
  IN IF url.ok
     THEN [ok |-> TRUE, text |-> Origin(url.protocol, url.host)]
     ELSE [ok |-> FALSE, text |-> ""]

\* ------------------------------------------------------------------ state
VARIABLES
  store,        \* SecureStore: one field per STORAGE_KEYS entry
  proc,         \* per caller: the call in flight, its locals and its outcome
  nextUuid,     \* how many identifiers uuidv4 has generated
  callsLeft,    \* calls the callers may still issue
  strayActivate, \* history: setActiveServerId was called with an id not in the stored list
  fetches,      \* the fetch calls issued, in order
  flagHistory,  \* history: the last of setOnboardingCompleted / resetOnboarding that ran
  ui            \* SetupScreen: its useState values and the handler in progress

vars == <<store, proc, nextUuid, callsLeft, strayActivate, fetches, flagHistory, ui>>

Void == [kind |-> "void", list |-> <<>>, str |-> Absent]

\* a promise rejected with error
Rejected(error) == [kind |-> "rejected", list |-> <<>>, str |-> error]

\* the stored list as an array ([] while the key is absent)
KeyPresent(st) == st.servers.kind = "json"
StoredList(st) == IF KeyPresent(st) THEN st.servers.list ELSE <<>>

EmptyStore(legacy) ==
  [url        |-> legacy[1],       \* n8n_server_url (legacy)
   key        |-> legacy[2],       \* n8n_api_key (legacy)
   servers    |-> NoItem,          \* n8n_servers
   active     |-> Absent,          \* n8n_active_server_id
   onboarding |-> Absent]          \* n8n_onboarding_completed

NoCall == [op |-> "none", res |-> Void, pre |-> EmptyStore(<<Absent, Absent>>)]

IdleProc ==
  [pc |-> "idle", op |-> "none", arg |-> NoEntry, endpoint |-> Absent,
   servers |-> <<>>, legacyUrl |-> Absent, newServer |-> NoEntry, config |-> NoEntry,
   res |-> Void, pre |-> EmptyStore(<<Absent, Absent>>), preUuid |-> 0, preFetches |-> 0,
   readFailed |-> FALSE, writeFailed |-> FALSE,   \* history: a store get / set or delete of this call rejected
   listReadFailed |-> FALSE,                      \* history: the get of the list key rejected
   prev |-> NoCall]

\* what was typed into the URL field, by its parts (history)
NoTyped == [scheme |-> Absent, authority |-> Absent, suffix |-> <<>>, pad |-> <<>>]

\* setup.tsx lines 45-60: the initial useState values; the screen is not mounted yet
InitUi ==
  [viewMode |-> "list", editingId |-> Absent,
   name |-> <<>>, serverUrl |-> <<>>, apiKey |-> <<>>,
   servers |-> <<>>, activeId |-> Absent,
   loading |-> FALSE, alert |-> Absent,
   stage |-> "unmounted", handler |-> "none",
   typed |-> NoTyped,      \* history: the URL last typed
   verdict |-> "none",     \* history: what handleSave made of the form as it stands
   sent |-> Absent,        \* history: the serverUrl handleSave last gave to saveServer
   loadClean |-> FALSE,    \* history: no store call of the last loadData() rejected
   faultsLeft |-> 0,       \* store calls under the screen that may still reject
   checking |-> TRUE,      \* Index: useState(true), part_002 line 41
   route |-> "/",          \* the route the router shows
   index |-> "unmounted"]  \* Index: how far checkConfig has come

\* a fresh install, or an upgrade from the single-server layout
InitFrom(legacies, n) ==
  /\ \E legacy \in legacies : store = EmptyStore(legacy)
  /\ proc = [p \in Procs |-> IdleProc]
  /\ nextUuid = 0
  /\ callsLeft = n
  /\ strayActivate = FALSE
  /\ fetches = <<>>
  /\ flagHistory = "none"
  /\ ui = InitUi

Init == InitFrom(LegacyPairs, MaxCalls)

Quiescent(p) == proc[p].pc \in {"idle", "done"}

\* the record of a caller that starts operation op with argument arg
Begin(p, op, arg) ==
  [IdleProc EXCEPT !.op = op, !.arg = arg, !.pre = store, !.preUuid = nextUuid,
                   !.preFetches = Len(fetches),
                   !.prev = [op |-> proc[p].op, res |-> proc[p].res, pre |-> proc[p].pre]]

\* the call settles with res; its locals are gone
Return(pr, res) ==
  [pr EXCEPT !.pc = "done", !.res = res,
             !.servers = <<>>, !.legacyUrl = Absent, !.newServer = NoEntry,
             !.config = NoEntry]

\* ------------------------------------------------------------------ code after `await getServers()`
\* variant: new entries go to the front of the array
saveServerBodyUnshift(pr, list, n) ==
  LET config == pr.arg
      index  == findIndex(list, config.id)
      added  == [id |-> config.id, name |-> OrDefault(config.name, "n8n Server"),
                 serverUrl |-> config.serverUrl, apiKey |-> config.apiKey]
      fresh  == [id |-> uuidv4(n), name |-> OrDefault(config.name, "New Server"),
                 serverUrl |-> config.serverUrl, apiKey |-> config.apiKey]
  IN IF Truthy(config.id)
     THEN IF index # 0
          THEN [pr EXCEPT !.pc = "ss_save",
                          !.servers = [list EXCEPT ![index] = Spread(list[index], config)]]
          ELSE [pr EXCEPT !.pc = "ss_save", !.servers = <<added>> \o list]
     ELSE [pr EXCEPT !.pc = IF Len(list) + 1 = 1 THEN "ss_active" ELSE "ss_save",
                     !.servers = <<fresh>> \o list, !.newServer = fresh]

\* variant: an updated entry is taken out and pushed at the end
saveServerBodyMoveToEnd(pr, list, n) ==
  LET config == pr.arg
      index  == findIndex(list, config.id)
      added  == [id |-> config.id, name |-> OrDefault(config.name, "n8n Server"),
                 serverUrl |-> config.serverUrl, apiKey |-> config.apiKey]
      fresh  == [id |-> uuidv4(n), name |-> OrDefault(config.name, "New Server"),
                 serverUrl |-> config.serverUrl, apiKey |-> config.apiKey]
  IN IF Truthy(config.id)
     THEN IF index # 0
          THEN [pr EXCEPT !.pc = "ss_save",
                          !.servers = Append(filterOut(list, config.id),
                                             Spread(list[index], config))]
          ELSE [pr EXCEPT !.pc = "ss_save", !.servers = Append(list, added)]
     ELSE [pr EXCEPT !.pc = IF Len(list) + 1 = 1 THEN "ss_active" ELSE "ss_save",
                     !.servers = Append(list, fresh), !.newServer = fresh]

\* saveServer, lines 235-258: the array to write and the next store call
saveServerBody(pr, list, n) ==
  LET config == pr.arg
      index  == findIndex(list, config.id)
      added  == [id |-> config.id, name |-> OrDefault(config.name, "n8n Server"),
                 serverUrl |-> config.serverUrl, apiKey |-> config.apiKey]
      fresh  == [id |-> uuidv4(n), name |-> OrDefault(config.name, "New Server"),
                 serverUrl |-> config.serverUrl, apiKey |-> config.apiKey]
  IN IF Truthy(config.id)
     THEN IF index # 0
          THEN [pr EXCEPT !.pc = "ss_save",
                          !.servers = [list EXCEPT ![index] = Spread(list[index], config)]]
          ELSE [pr EXCEPT !.pc = "ss_save", !.servers = Append(list, added)]
     ELSE [pr EXCEPT !.pc = IF Len(list) + 1 = 1 THEN "ss_active" ELSE "ss_save",
                     !.servers = Append(list, fresh), !.newServer = fresh]

\* removeServer, line 268
removeServerBody(pr, list) ==
  [pr EXCEPT !.pc = "rs_save", !.servers = filterOut(list, pr.arg.id)]

\* variant: the request goes out without the null check
apiRequestBodyUnchecked(pr, res) ==
  [pr EXCEPT !.pc = "ar_fetch",
             !.config = IF res.kind = "null" THEN NoEntry ELSE res.list[1],
             !.servers = <<>>]

\* apiRequest, lines 23-29: no configuration throws, else the request is built
apiRequestBody(pr, res) ==
  IF res.kind = "null"
  THEN Return(pr, Rejected("N8nApiError"))
  ELSE [pr EXCEPT !.pc = "ar_fetch", !.config = res.list[1], !.servers = <<>>]

\* what the caller of getN8nConfig does with the value it returns
AfterGetN8nConfig(pr, res) ==
  IF pr.op = "apiRequest" THEN apiRequestBody(pr, res) ELSE Return(pr, res)

\* getN8nConfig, line 302
getN8nConfigBody(pr, list) ==
  IF Len(list) = 0
  THEN AfterGetN8nConfig(pr, [kind |-> "null", list |-> <<>>, str |-> Absent])
  ELSE [pr EXCEPT !.pc = "gc_get", !.servers = list]

\* variant: any array counts as a configuration
hasN8nConfigBodyAny(pr, list) ==
  Return(pr, [kind |-> IF Len(list) >= 0 THEN "true" ELSE "false", list |-> <<>>, str |-> Absent])

\* hasN8nConfig, line 323
hasN8nConfigBody(pr, list) ==
  Return(pr, [kind |-> IF Len(list) > 0 THEN "true" ELSE "false", list |-> <<>>, str |-> Absent])

\* what the caller of getServers does with the array it returns
AfterGetServers(pr, list, n) ==
  CASE pr.op = "getServers"   -> Return(pr, [kind |-> "list", list |-> list, str |-> Absent])
    [] pr.op = "saveServer"   -> saveServerBody(pr, list, n)
    [] pr.op = "removeServer" -> removeServerBody(pr, list)
    [] pr.op = "getN8nConfig" -> getN8nConfigBody(pr, list)
    [] pr.op = "apiRequest"   -> getN8nConfigBody(pr, list)
    [] pr.op = "hasN8nConfig" -> hasN8nConfigBody(pr, list)

\* the continuation calls uuidv4 (saveServer, add-new branch)
TakesUuid(pr) == pr.op = "saveServer" /\ ~Truthy(pr.arg.id)

\* ------------------------------------------------------------------ getServers
\* a store call of the running call pr rejected
Failed(pr, call) ==
  [pr EXCEPT !.readFailed = @ \/ call = "get", !.writeFailed = @ \/ call # "get"]

\* variant: no catch, the exception leaves getServers and its caller
getServersCatchRethrow(p, pr) ==
  /\ proc' = [proc EXCEPT ![p] = Return(pr, Rejected("Error"))]
  /\ UNCHANGED <<store, nextUuid, strayActivate, fetches, flagHistory, ui>>

\* lines 216-219: whatever is thrown inside the try block is logged, the result is []
getServersCatch(p, pr) ==
  /\ proc' = [proc EXCEPT ![p] = AfterGetServers(pr, <<>>, nextUuid)]
  /\ nextUuid' = IF TakesUuid(pr) THEN nextUuid + 1 ELSE nextUuid
  /\ UNCHANGED <<store, strayActivate, fetches, flagHistory>>

\* lines 194-197: read the list key; parse and return it when it holds a value
getServersRead(p, pr) ==
  IF HasServersJson(store.servers) /\ ~Parsable(store.servers)
  THEN getServersCatch(p, pr)
  ELSE /\ IF HasServersJson(store.servers)
          THEN /\ proc' = [proc EXCEPT ![p] = AfterGetServers(pr, JSONparse(store.servers), nextUuid)]
               /\ nextUuid' = IF TakesUuid(pr) THEN nextUuid + 1 ELSE nextUuid
          ELSE /\ proc' = [proc EXCEPT ![p] = [pr EXCEPT !.pc = "gs_url"]]
               /\ nextUuid' = nextUuid
       /\ UNCHANGED <<store, strayActivate, fetches, flagHistory>>

\* line 200
getServersLegacyUrl(p) ==
  /\ proc[p].pc = "gs_url"
  /\ proc' = [proc EXCEPT ![p].pc = "gs_key", ![p].legacyUrl = store.url]
  /\ UNCHANGED <<store, nextUuid, callsLeft, strayActivate, fetches, flagHistory, ui>>

\* variant: one legacy value is enough to migrate
getServersLegacyKeyEither(p) ==
  /\ proc[p].pc = "gs_key"
  /\ LET legacyUrl == proc[p].legacyUrl
         legacyKey == store.key
     IN IF Truthy(legacyUrl) \/ Truthy(legacyKey)
        THEN /\ proc' = [proc EXCEPT ![p].pc = "gs_save",
                                     ![p].newServer = [id |-> uuidv4(nextUuid),
                                                       name |-> "My n8n Server",
                                                       serverUrl |-> legacyUrl,
                                                       apiKey |-> legacyKey]]
             /\ nextUuid' = nextUuid + 1
        ELSE /\ proc' = [proc EXCEPT ![p] = AfterGetServers(proc[p], <<>>, nextUuid)]
             /\ nextUuid' = IF TakesUuid(proc[p]) THEN nextUuid + 1 ELSE nextUuid
  /\ UNCHANGED <<store, callsLeft, strayActivate, fetches, flagHistory, ui>>

\* lines 201-215
getServersLegacyKey(p) ==
  /\ proc[p].pc = "gs_key"
  /\ LET legacyUrl == proc[p].legacyUrl
         legacyKey == store.key
     IN IF Truthy(legacyUrl) /\ Truthy(legacyKey)
        THEN /\ proc' = [proc EXCEPT ![p].pc = "gs_save",
                                     ![p].newServer = [id |-> uuidv4(nextUuid),
                                                       name |-> "My n8n Server",
                                                       serverUrl |-> legacyUrl,
                                                       apiKey |-> legacyKey]]
             /\ nextUuid' = nextUuid + 1
        ELSE /\ proc' = [proc EXCEPT ![p] = AfterGetServers(proc[p], <<>>, nextUuid)]
             /\ nextUuid' = IF TakesUuid(proc[p]) THEN nextUuid + 1 ELSE nextUuid
  /\ UNCHANGED <<store, callsLeft, strayActivate, fetches, flagHistory, ui>>

\* variant: the migrated list is returned but not persisted
getServersMigrateListSkipped(p) ==
  /\ proc[p].pc = "gs_save"
  /\ proc' = [proc EXCEPT ![p].pc = "gs_active"]
  /\ UNCHANGED <<store, nextUuid, callsLeft, strayActivate, fetches, flagHistory, ui>>

\* line 210: saveServerList([newServer])
getServersMigrateList(p) ==
  /\ proc[p].pc = "gs_save"
  /\ store' = [store EXCEPT !.servers = JSONstringify(<<proc[p].newServer>>)]
  /\ proc' = [proc EXCEPT ![p].pc = "gs_active"]
  /\ UNCHANGED <<nextUuid, callsLeft, strayActivate, fetches, flagHistory, ui>>

\* lines 211-212: setActiveServerId(newServer.id); return [newServer]
getServersMigrateActive(p) ==
  /\ proc[p].pc = "gs_active"
  /\ store' = [store EXCEPT !.active = proc[p].newServer.id]
  /\ proc' = [proc EXCEPT ![p] = AfterGetServers(proc[p], <<proc[p].newServer>>, nextUuid)]
  /\ nextUuid' = IF TakesUuid(proc[p]) THEN nextUuid + 1 ELSE nextUuid
  /\ UNCHANGED <<callsLeft, strayActivate, fetches, flagHistory, ui>>

\* ------------------------------------------------------------------ calls
\* callers are interchangeable: caller p starts only after every caller q < p has
FirstUse(p) == \A q \in Procs : (q < p) => proc[q].op # "none"

\* a caller may start a call when it has none in flight
CanCall(p) == Quiescent(p) /\ FirstUse(p) /\ callsLeft > 0

\* ids a caller can hold: those on the list it sees, and ids of entries long gone
KnownIds == Ids(StoredList(store)) \cup SuppliedIds

\* export async function getServers(), lines 192-220
getServers(p) ==
  /\ CanCall(p)
  /\ callsLeft' = callsLeft - 1
  /\ UNCHANGED ui
  /\ getServersRead(p, Begin(p, "getServers", NoEntry))

\* export async function saveServer(config), lines 232-233
saveServer(p, config) ==
  /\ CanCall(p)
  /\ callsLeft' = callsLeft - 1
  /\ UNCHANGED ui
  /\ getServersRead(p, Begin(p, "saveServer", config))

\* export async function removeServer(id), lines 266-267
removeServer(p, id) ==
  /\ CanCall(p)
  /\ callsLeft' = callsLeft - 1
  /\ UNCHANGED ui
  /\ getServersRead(p, Begin(p, "removeServer", [NoEntry EXCEPT !.id = id]))

\* export async function getN8nConfig(), lines 299-301
getN8nConfig(p) ==
  /\ CanCall(p)
  /\ callsLeft' = callsLeft - 1
  /\ UNCHANGED ui
  /\ getServersRead(p, Begin(p, "getN8nConfig", NoEntry))

\* export async function hasN8nConfig(), lines 321-324
hasN8nConfig(p) ==
  /\ CanCall(p)
  /\ callsLeft' = callsLeft - 1
  /\ UNCHANGED ui
  /\ getServersRead(p, Begin(p, "hasN8nConfig", NoEntry))

\* export async function setActiveServerId(id), lines 285-287
setActiveServerId(p, id) ==
  /\ CanCall(p)
  /\ callsLeft' = callsLeft - 1
  /\ store' = [store EXCEPT !.active = id]
  /\ proc' = [proc EXCEPT ![p] = Return(Begin(p, "setActiveServerId", [NoEntry EXCEPT !.id = id]), Void)]
  /\ strayActivate' = (strayActivate \/ id \notin Ids(StoredList(store)))
  /\ UNCHANGED <<nextUuid, fetches, flagHistory, ui>>

\* export async function getActiveServerId(), lines 292-294
getActiveServerId(p) ==
  /\ CanCall(p)
  /\ callsLeft' = callsLeft - 1
  /\ proc' = [proc EXCEPT ![p] = Return(Begin(p, "getActiveServerId", NoEntry),
                                        [kind |-> "id", list |-> <<>>, str |-> store.active])]
  /\ UNCHANGED <<store, nextUuid, strayActivate, fetches, flagHistory, ui>>

\* ------------------------------------------------------------------ saveServer
\* line 256: setActiveServerId(newServer.id)
saveServerSetActive(p) ==
  /\ proc[p].pc = "ss_active"
  /\ store' = [store EXCEPT !.active = proc[p].newServer.id]
  /\ proc' = [proc EXCEPT ![p].pc = "ss_save"]
  /\ UNCHANGED <<nextUuid, callsLeft, strayActivate, fetches, flagHistory, ui>>

\* variant: the write merges the caller's array into the list now stored
saveServerWriteMerging(p) ==
  /\ proc[p].pc = "ss_save"
  /\ store' = [store EXCEPT !.servers =
        JSONstringify(StoredList(store) \o
          SelectSeq(proc[p].servers, LAMBDA e : e.id \notin Ids(StoredList(store))))]
  /\ proc' = [proc EXCEPT ![p] = Return(proc[p], Void)]
  /\ UNCHANGED <<nextUuid, callsLeft, strayActivate, fetches, flagHistory, ui>>

\* line 260: saveServerList(servers)
saveServerWrite(p) ==
  /\ proc[p].pc = "ss_save"
  /\ store' = [store EXCEPT !.servers = JSONstringify(proc[p].servers)]
  /\ proc' = [proc EXCEPT ![p] = Return(proc[p], Void)]
  /\ UNCHANGED <<nextUuid, callsLeft, strayActivate, fetches, flagHistory, ui>>

\* ------------------------------------------------------------------ removeServer
\* line 269: saveServerList(newServers)
removeServerWrite(p) ==
  /\ proc[p].pc = "rs_save"
  /\ store' = [store EXCEPT !.servers = JSONstringify(proc[p].servers)]
  /\ proc' = [proc EXCEPT ![p].pc = "rs_get"]
  /\ UNCHANGED <<nextUuid, callsLeft, strayActivate, fetches, flagHistory, ui>>

\* variant: the pointer is never repaired
RepairStepNone(activeId, id, newServers) == "return"

\* variant: the pointer is repaired whichever entry was removed
RepairStepAlways(activeId, id, newServers) ==
  IF Len(newServers) > 0 THEN "rs_set" ELSE "rs_del"

\* lines 272-279: read the active id and choose the repair
RepairStep(activeId, id, newServers) ==
  IF activeId = id
  THEN IF Len(newServers) > 0 THEN "rs_set" ELSE "rs_del"
  ELSE "return"

removeServerReadActive(p) ==
  /\ proc[p].pc = "rs_get"
  /\ LET next == RepairStep(store.active, proc[p].arg.id, proc[p].servers)
     IN proc' = [proc EXCEPT ![p] = IF next = "return" THEN Return(proc[p], Void)
                                    ELSE [proc[p] EXCEPT !.pc = next]]
  /\ UNCHANGED <<store, nextUuid, callsLeft, strayActivate, fetches, flagHistory, ui>>

\* variant: the pointer moves to the last remaining entry
removeServerRepointLast(p) ==
  /\ proc[p].pc = "rs_set"
  /\ store' = [store EXCEPT !.active = proc[p].servers[Len(proc[p].servers)].id]
  /\ proc' = [proc EXCEPT ![p] = Return(proc[p], Void)]
  /\ UNCHANGED <<nextUuid, callsLeft, strayActivate, fetches, flagHistory, ui>>

\* line 275: setActiveServerId(newServers[0].id)
removeServerRepoint(p) ==
  /\ proc[p].pc = "rs_set"
  /\ store' = [store EXCEPT !.active = proc[p].servers[1].id]
  /\ proc' = [proc EXCEPT ![p] = Return(proc[p], Void)]
  /\ UNCHANGED <<nextUuid, callsLeft, strayActivate, fetches, flagHistory, ui>>

\* line 277: deleteItemAsync(ACTIVE_SERVER_ID)
removeServerClear(p) ==
  /\ proc[p].pc = "rs_del"
  /\ store' = [store EXCEPT !.active = Absent]
  /\ proc' = [proc EXCEPT ![p] = Return(proc[p], Void)]
  /\ UNCHANGED <<nextUuid, callsLeft, strayActivate, fetches, flagHistory, ui>>

\* ------------------------------------------------------------------ getN8nConfig
\* variant: the active id is ignored
ResolveFirst(servers, activeId) == servers[1]

\* lines 305-311: the entry the resolver returns
Resolve(servers, activeId) ==
  IF Truthy(activeId) /\ findIndex(servers, activeId) # 0
  THEN servers[findIndex(servers, activeId)]
  ELSE servers[1]

\* variant: a stale pointer is rewritten to the entry returned
getN8nConfigReadActiveHealing(p) ==
  /\ proc[p].pc = "gc_get"
  /\ proc' = [proc EXCEPT ![p] = AfterGetN8nConfig(proc[p],
                 [kind |-> "config", list |-> <<Resolve(proc[p].servers, store.active)>>,
                  str |-> Absent])]
  /\ store' = IF Truthy(store.active) /\ findIndex(proc[p].servers, store.active) = 0
              THEN [store EXCEPT !.active = proc[p].servers[1].id]
              ELSE store
  /\ UNCHANGED <<nextUuid, callsLeft, strayActivate, fetches, flagHistory, ui>>

\* variant: a missing pointer is set to the entry returned
getN8nConfigReadActiveDefaulting(p) ==
  /\ proc[p].pc = "gc_get"
  /\ proc' = [proc EXCEPT ![p] = AfterGetN8nConfig(proc[p],
                 [kind |-> "config", list |-> <<Resolve(proc[p].servers, store.active)>>,
                  str |-> Absent])]
  /\ store' = IF Truthy(store.active)
              THEN store
              ELSE [store EXCEPT !.active = proc[p].servers[1].id]
  /\ UNCHANGED <<nextUuid, callsLeft, strayActivate, fetches, flagHistory, ui>>

\* line 304: getActiveServerId(), then lines 305-311
getN8nConfigReadActive(p) ==
  /\ proc[p].pc = "gc_get"
  /\ proc' = [proc EXCEPT ![p] = AfterGetN8nConfig(proc[p],
                 [kind |-> "config", list |-> <<Resolve(proc[p].servers, store.active)>>,
                  str |-> Absent])]
  /\ UNCHANGED <<store, nextUuid, callsLeft, strayActivate, fetches, flagHistory, ui>>

\* ------------------------------------------------------------------ apiRequest
Endpoints     == {"/workflows", "/executions"}
FetchOutcomes == {"ok", "failed"}

\* `${config.serverUrl}/api/v1${endpoint}` and the X-N8N-API-KEY header
Request(config, endpoint) ==
  [url |-> <<config.serverUrl, "/api/v1", endpoint>>, key |-> config.apiKey]

\* async function apiRequest(endpoint), lines 19-23: await getN8nConfig()
apiRequest(p, endpoint) ==
  /\ CanCall(p)
  /\ callsLeft' = callsLeft - 1
  /\ UNCHANGED ui
  /\ getServersRead(p, [Begin(p, "apiRequest", NoEntry) EXCEPT !.endpoint = endpoint])

\* lines 47-89: fetch(url, fetchOptions); the response or an N8nApiError
apiRequestFetch(p, outcome) ==
  /\ proc[p].pc = "ar_fetch"
  /\ fetches' = Append(fetches, Request(proc[p].config, proc[p].endpoint))
  /\ proc' = [proc EXCEPT ![p] =
       Return(proc[p], IF outcome = "ok"
                       THEN [kind |-> "data", list |-> <<>>, str |-> Absent]
                       ELSE Rejected("N8nApiError"))]
  /\ UNCHANGED <<store, nextUuid, callsLeft, strayActivate, flagHistory, ui>>

\* ------------------------------------------------------------------ onboarding flag
\* export async function isOnboardingCompleted(), lines 170-173
isOnboardingCompleted(p) ==
  /\ CanCall(p)
  /\ callsLeft' = callsLeft - 1
  /\ proc' = [proc EXCEPT ![p] =
       Return(Begin(p, "isOnboardingCompleted", NoEntry),
              [kind |-> IF store.onboarding = "true" THEN "true" ELSE "false",
               list |-> <<>>, str |-> Absent])]
  /\ UNCHANGED <<store, nextUuid, strayActivate, fetches, flagHistory, ui>>

\* export async function setOnboardingCompleted(), lines 178-180
setOnboardingCompleted(p) ==
  /\ CanCall(p)
  /\ callsLeft' = callsLeft - 1
  /\ store' = [store EXCEPT !.onboarding = "true"]
  /\ proc' = [proc EXCEPT ![p] = Return(Begin(p, "setOnboardingCompleted", NoEntry), Void)]
  /\ flagHistory' = "set"
  /\ UNCHANGED <<nextUuid, strayActivate, fetches, ui>>

\* variant: the key is left as it is
resetOnboardingKept(p) ==
  /\ CanCall(p)
  /\ callsLeft' = callsLeft - 1
  /\ proc' = [proc EXCEPT ![p] = Return(Begin(p, "resetOnboarding", NoEntry), Void)]
  /\ flagHistory' = "reset"
  /\ UNCHANGED <<store, nextUuid, strayActivate, fetches, ui>>

\* export async function resetOnboarding(), lines 185-187
resetOnboarding(p) ==
  /\ CanCall(p)
  /\ callsLeft' = callsLeft - 1
  /\ store' = [store EXCEPT !.onboarding = Absent]
  /\ proc' = [proc EXCEPT ![p] = Return(Begin(p, "resetOnboarding", NoEntry), Void)]
  /\ flagHistory' = "reset"
  /\ UNCHANGED <<nextUuid, strayActivate, fetches, ui>>

\* ------------------------------------------------------------------ specifications
ConfigsOver(names, urls) ==
  { [id |-> i, name |-> n, serverUrl |-> u, apiKey |-> k] :
      i \in KnownIds \cup {Absent}, n \in names, u \in urls, k \in KeyInputs }

ConfigInputs == ConfigsOver(NameInputs, UrlInputs)

\* overlapping callers: every id case, one name and one URL
ConcConfigInputs == ConfigsOver({"A"}, {"https://a.test"})

\* ------------------------------------------------------------------ SetupScreen
\* the text typed for the parts t
Raw(t) ==
  IF t.authority = Absent THEN t.pad
  ELSE t.pad \o (IF t.scheme = Absent THEN <<>> ELSE <<t.scheme, "/", "/">>)
             \o <<t.authority>> \o t.suffix \o t.pad

\* every scheme, authority and suffix; white space around one URL per suffix,
\* and around nothing
TypedUrls ==
  [scheme : Schemes \cup {Absent}, authority : Authorities, suffix : Suffixes, pad : {<<>>}]
    \cup [scheme : {"https:"}, authority : {"n8n.example.com"}, suffix : Suffixes, pad : Pads]
    \cup [scheme : {Absent}, authority : {Absent}, suffix : {<<>>}, pad : Pads]

PlainUrl == [scheme |-> "https:", authority |-> "n8n.example.com", suffix |-> <<>>, pad |-> <<>>]

\* every URL with a name and a key, and one URL with a blank name or key
FormInputs ==
  [name : {<<" ", "A", " ">>}, typed : TypedUrls, apiKey : {<<"k">>}]
    \cup [name : {<<>>, <<"A">>}, typed : {PlainUrl}, apiKey : {<<"k">>, <<" ">>}]

\* a handler reaches `await getServers()` and the screen becomes u: the read
\* of the list key, line 194, returns or rejects
StartGetServers(p, pr, u) ==
  \/ /\ getServersRead(p, pr)
     /\ ui' = u
  \/ /\ u.faultsLeft > 0
     /\ getServersCatch(p, [Failed(pr, "get") EXCEPT !.listReadFailed = TRUE])
     /\ ui' = [u EXCEPT !.faultsLeft = @ - 1]

\* setup.tsx lines 142-147
resetForm(u) ==
  [u EXCEPT !.editingId = Absent, !.name = <<>>, !.serverUrl = <<>>, !.apiKey = <<>>]

\* useEffect, lines 63-74: loadData() starts; action=add opens the form
mount(p) ==
  /\ ui.stage = "unmounted"
  /\ \E action \in {Absent, "add"} :
       StartGetServers(p, Begin(p, "getServers", NoEntry),
         [ui EXCEPT !.stage = "load_list", !.handler = "mount",
                    !.viewMode = IF action = "add" THEN "form" ELSE "list"])
  /\ UNCHANGED callsLeft

\* loadData, lines 80-91, and what handleSave does after it, lines 250-257;
\* when the read of the active id rejects, loadData logs it and sets nothing
loadDataReadActive(p) ==
  /\ ui.stage = "load_list"
  /\ proc[p].pc = "done"
  /\ \E rejects \in IF ui.faultsLeft > 0 THEN BOOLEAN ELSE {FALSE} :
       LET serverList    == proc[p].res.list
           currentActive == store.active
           loaded == [ui EXCEPT !.servers = serverList,
                                !.activeId = IF Truthy(currentActive) THEN currentActive
                                             ELSE IF Len(serverList) > 0 THEN serverList[1].id
                                             ELSE Absent,
                                !.stage = "idle", !.handler = "none",
                                !.loadClean = ~proc[p].readFailed /\ ~proc[p].writeFailed]
           failed == [ui EXCEPT !.stage = "idle", !.handler = "none", !.loadClean = FALSE,
                                !.faultsLeft = @ - 1]
           after  == IF rejects THEN failed ELSE loaded
       IN /\ ui' = IF ui.handler = "handleSave"
                   THEN [resetForm(after) EXCEPT !.viewMode = "list", !.alert = "Guardado",
                                                 !.loading = FALSE]
                   ELSE after
          /\ proc' = [proc EXCEPT ![p] =
               IF rejects
               THEN Return(Failed(Begin(p, "getActiveServerId", NoEntry), "get"), Rejected("Error"))
               ELSE Return(Begin(p, "getActiveServerId", NoEntry),
                           [kind |-> "id", list |-> <<>>, str |-> store.active])]
  /\ UNCHANGED <<store, nextUuid, callsLeft, strayActivate, fetches, flagHistory>>

\* lines 101-104
handleAddNew(p) ==
  /\ ui.stage = "idle"
  /\ ui.viewMode = "list"
  /\ ui' = [resetForm(ui) EXCEPT !.viewMode = "form", !.typed = NoTyped, !.verdict = "none"]
  /\ UNCHANGED <<store, proc, nextUuid, callsLeft, strayActivate, fetches, flagHistory>>

\* lines 106-112
handleEdit(p) ==
  /\ ui.stage = "idle"
  /\ ui.viewMode = "list"
  /\ \E i \in 1..Len(ui.servers) :
       LET server == ui.servers[i]
       IN ui' = [ui EXCEPT !.editingId = server.id, !.name = <<server.name>>,
                           !.serverUrl = Tokens(server.serverUrl),
                           !.apiKey = <<server.apiKey>>, !.viewMode = "form",
                           !.typed = NoTyped, !.verdict = "none"]
  /\ UNCHANGED <<store, proc, nextUuid, callsLeft, strayActivate, fetches, flagHistory>>

\* the user fills the three fields (onChangeText)
typeForm(p) ==
  /\ ui.stage = "idle"
  /\ ui.viewMode = "form"
  /\ callsLeft > 0
  /\ callsLeft' = callsLeft - 1
  /\ \E input \in FormInputs :
       ui' = [ui EXCEPT !.name = input.name, !.serverUrl = Raw(input.typed),
                        !.apiKey = input.apiKey, !.typed = input.typed, !.verdict = "none"]
  /\ UNCHANGED <<store, proc, nextUuid, strayActivate, fetches, flagHistory>>

\* one form per outcome of handleSave: accepted, a blank name, no http scheme,
\* a URL that does not parse
SetupInputs ==
  [name : {<<"A">>}, apiKey : {<<"k">>},
   typed : { PlainUrl, [PlainUrl EXCEPT !.scheme = "ftp:"],
             [PlainUrl EXCEPT !.authority = "host:abc"] }]
    \cup [name : {<<" ">>}, apiKey : {<<"k">>}, typed : {PlainUrl}]

\* the user fills the three fields (onChangeText), SpecSetup
typeFormSetup(p) ==
  /\ ui.stage = "idle"
  /\ ui.viewMode = "form"
  /\ callsLeft > 0
  /\ callsLeft' = callsLeft - 1
  /\ \E input \in SetupInputs :
       ui' = [ui EXCEPT !.name = input.name, !.serverUrl = Raw(input.typed),
                        !.apiKey = input.apiKey, !.typed = input.typed, !.verdict = "none"]
  /\ UNCHANGED <<store, proc, nextUuid, strayActivate, fetches, flagHistory>>

\* variant: loading is set before the URL is parsed and a parse failure returns
\* without resetting it
handleSaveLoadingStuck(p) ==
  /\ ui.stage = "idle"
  /\ ui.viewMode = "form"
  /\ LET cleanUrl == cleanUrlOf(ui.serverUrl)
         rejected(title, v) ==
           /\ ui' = [ui EXCEPT !.alert = title, !.verdict = v, !.loading = FALSE]
           /\ UNCHANGED <<store, proc, nextUuid, strayActivate, fetches, flagHistory>>
     IN IF trim(ui.serverUrl) = <<>> \/ trim(ui.apiKey) = <<>> \/ trim(ui.name) = <<>>
        THEN rejected("Error", "fields")
        ELSE IF ~urlPatternTest(trim(ui.serverUrl))
        THEN rejected("URL Invalida", "scheme")
        ELSE IF ~cleanUrl.ok
        THEN /\ ui' = [ui EXCEPT !.alert = "URL Invalida", !.verdict = "parse", !.loading = TRUE]
             /\ UNCHANGED <<store, proc, nextUuid, strayActivate, fetches, flagHistory>>
        ELSE StartGetServers(p,
               Begin(p, "saveServer",
                 [id        |-> IF Truthy(ui.editingId) THEN ui.editingId ELSE Undef,
                  name      |-> Str(trim(ui.name)),
                  serverUrl |-> cleanUrl.text,
                  apiKey    |-> Str(trim(ui.apiKey))]),
               [ui EXCEPT !.loading = TRUE, !.stage = "saving", !.handler = "handleSave",
                          !.verdict = "accepted", !.sent = cleanUrl.text])
  /\ UNCHANGED callsLeft

\* lines 211-248: validation, normalisation, and saveServer up to its first store call
handleSave(p) ==
  /\ ui.stage = "idle"
  /\ ui.viewMode = "form"
  /\ LET cleanUrl == cleanUrlOf(ui.serverUrl)
         rejected(title, v) ==
           /\ ui' = [ui EXCEPT !.alert = title, !.verdict = v, !.loading = FALSE]
           /\ UNCHANGED <<store, proc, nextUuid, strayActivate, fetches, flagHistory>>
     IN IF trim(ui.serverUrl) = <<>> \/ trim(ui.apiKey) = <<>> \/ trim(ui.name) = <<>>
        THEN rejected("Error", "fields")
        ELSE IF ~urlPatternTest(trim(ui.serverUrl))
        THEN rejected("URL Invalida", "scheme")
        ELSE IF ~cleanUrl.ok
        THEN rejected("URL Invalida", "parse")
        ELSE StartGetServers(p,
               Begin(p, "saveServer",
                 [id        |-> IF Truthy(ui.editingId) THEN ui.editingId ELSE Undef,
                  name      |-> Str(trim(ui.name)),
                  serverUrl |-> cleanUrl.text,
                  apiKey    |-> Str(trim(ui.apiKey))]),
               [ui EXCEPT !.loading = TRUE, !.stage = "saving", !.handler = "handleSave",
                          !.verdict = "accepted", !.sent = cleanUrl.text])
  /\ UNCHANGED callsLeft

\* lines 243-257: saveServer has settled; loadData() starts, or the catch block runs
handleSaveSaved(p) ==
  /\ ui.stage = "saving"
  /\ proc[p].pc = "done"
  /\ IF proc[p].res.kind = "rejected"
     THEN /\ ui' = [ui EXCEPT !.alert = "Error", !.loading = FALSE,
                              !.stage = "idle", !.handler = "none"]
          /\ UNCHANGED <<store, proc, nextUuid, strayActivate, fetches, flagHistory>>
     ELSE StartGetServers(p, Begin(p, "getServers", NoEntry), [ui EXCEPT !.stage = "load_list"])
  /\ UNCHANGED callsLeft

\* lines 149-152: the close button of the form
goBackToList(p) ==
  /\ ui.stage = "idle"
  /\ ui.viewMode = "form"
  /\ ui' = [resetForm(ui) EXCEPT !.viewMode = "list", !.typed = NoTyped, !.verdict = "none"]
  /\ UNCHANGED <<store, proc, nextUuid, callsLeft, strayActivate, fetches, flagHistory>>

\* lines 114-118: the Conectar button of an entry that is not shown as active;
\* when setActiveServerId rejects nothing after the await runs
handleActivate(p) ==
  /\ ui.stage = "idle"
  /\ ui.viewMode = "list"
  /\ \E i \in 1..Len(ui.servers) :
       LET id   == ui.servers[i].id
           call == Begin(p, "setActiveServerId", [NoEntry EXCEPT !.id = id])
       IN /\ id # ui.activeId
          /\ \/ /\ store' = [store EXCEPT !.active = id]
                /\ proc' = [proc EXCEPT ![p] = Return(call, Void)]
                /\ strayActivate' = (strayActivate \/ id \notin Ids(StoredList(store)))
                /\ ui' = [ui EXCEPT !.activeId = id, !.alert = "Servidor Activo"]
             \/ /\ ui.faultsLeft > 0
                /\ proc' = [proc EXCEPT ![p] = Return(Failed(call, "set"), Rejected("Error"))]
                /\ ui' = [ui EXCEPT !.faultsLeft = @ - 1]
                /\ UNCHANGED <<store, strayActivate>>
  /\ UNCHANGED <<nextUuid, callsLeft, fetches, flagHistory>>

\* lines 120-128: Eliminar of an entry, confirmed; removeServer up to its first store call
handleDelete(p) ==
  /\ ui.stage = "idle"
  /\ ui.viewMode = "list"
  /\ \E i \in 1..Len(ui.servers) :
       StartGetServers(p, Begin(p, "removeServer", [NoEntry EXCEPT !.id = ui.servers[i].id]),
                       [ui EXCEPT !.stage = "deleting", !.handler = "handleDelete"])
  /\ UNCHANGED callsLeft

\* lines 128-134: removeServer has settled; when it rejected nothing after the
\* await runs, otherwise loadData() starts
handleDeleteRemoved(p) ==
  /\ ui.stage = "deleting"
  /\ proc[p].pc = "done"
  /\ IF proc[p].res.kind = "rejected"
     THEN /\ ui' = [ui EXCEPT !.stage = "idle", !.handler = "none"]
          /\ UNCHANGED <<store, proc, nextUuid, strayActivate, fetches, flagHistory>>
     ELSE StartGetServers(p, Begin(p, "getServers", NoEntry),
            [(IF ui.editingId = proc[p].arg.id
              THEN [resetForm(ui) EXCEPT !.viewMode = "list"] ELSE ui)
             EXCEPT !.stage = "load_list"])
  /\ UNCHANGED callsLeft

\* a store call awaited inside getServers, saveServer or removeServer rejects
\* (lines 200-211, 256-260, 269-277)
setupStoreRejects(p) ==
  /\ ui.faultsLeft > 0
  /\ ui' = [ui EXCEPT !.faultsLeft = @ - 1]
  /\ \/ /\ proc[p].pc \in {"gs_url", "gs_key", "gs_save", "gs_active"}
        /\ getServersCatch(p, Failed(proc[p], IF proc[p].pc \in {"gs_url", "gs_key"}
                                              THEN "get" ELSE "set"))
     \/ /\ proc[p].pc \in {"ss_active", "ss_save", "rs_save", "rs_get", "rs_set", "rs_del"}
        /\ proc' = [proc EXCEPT ![p] =
             Return(Failed(proc[p], IF proc[p].pc = "rs_get" THEN "get"
                                    ELSE IF proc[p].pc = "rs_del" THEN "delete" ELSE "set"),
                    Rejected("Error"))]
        /\ UNCHANGED <<store, nextUuid, strayActivate, fetches, flagHistory>>
  /\ UNCHANGED callsLeft

\* ------------------------------------------------------------------ Index (home screen)
\* checkConfig, part_002 lines 71-78 and 87-89: the useEffect runs it on mount;
\* the flag is read (storage line 171); not completed replaces the route with
\* /onboarding, a rejected read is caught and replaces it with /setup
checkConfig(p) ==
  /\ ui.index = "unmounted"
  /\ ui.route = "/"
  /\ LET call == Begin(p, "isOnboardingCompleted", NoEntry)
         onboardingDone == store.onboarding = "true"
     IN \/ /\ proc' = [proc EXCEPT ![p] =
                Return(call, [kind |-> IF onboardingDone THEN "true" ELSE "false",
                              list |-> <<>>, str |-> Absent])]
           /\ ui' = IF onboardingDone THEN [ui EXCEPT !.index = "has_config"]
                    ELSE [ui EXCEPT !.index = "settled", !.route = "/onboarding"]
        \/ /\ ui.faultsLeft > 0
           /\ proc' = [proc EXCEPT ![p] = Return(Failed(call, "get"), Rejected("Error"))]
           /\ ui' = [ui EXCEPT !.index = "settled", !.route = "/setup", !.faultsLeft = @ - 1]
  /\ UNCHANGED <<store, nextUuid, callsLeft, strayActivate, fetches, flagHistory>>

\* line 81: await hasN8nConfig(), up to its first store call
checkConfigHasConfig(p) ==
  /\ ui.index = "has_config"
  /\ StartGetServers(p, Begin(p, "hasN8nConfig", NoEntry), [ui EXCEPT !.index = "config"])
  /\ UNCHANGED callsLeft

\* variant: checking is cleared whatever hasN8nConfig returned
checkConfigSettledLenient(p) ==
  /\ ui.index = "config"
  /\ proc[p].pc = "done"
  /\ ui' = [ui EXCEPT !.index = "settled", !.checking = FALSE]
  /\ UNCHANGED <<store, proc, nextUuid, callsLeft, strayActivate, fetches, flagHistory>>

\* lines 82-86: hasN8nConfig has returned
checkConfigSettled(p) ==
  /\ ui.index = "config"
  /\ proc[p].pc = "done"
  /\ LET configExists == proc[p].res.kind = "true"
     IN ui' = IF ~configExists THEN [ui EXCEPT !.index = "settled", !.route = "/setup"]
              ELSE [ui EXCEPT !.index = "settled", !.checking = FALSE]
  /\ UNCHANGED <<store, proc, nextUuid, callsLeft, strayActivate, fetches, flagHistory>>

\* lines 46-57 and 63-69: useQuery with enabled: !checking, and refetch on
\* focus; the queryFn getWorkflows is apiRequest('/workflows'), api lines 95-98
workflowsQuery(p) ==
  /\ ui.route = "/"
  /\ ~ui.checking
  /\ Quiescent(p)
  /\ callsLeft > 0
  /\ callsLeft' = callsLeft - 1
  /\ StartGetServers(p, [Begin(p, "apiRequest", NoEntry) EXCEPT !.endpoint = "/workflows"], ui)

\* ------------------------------------------------------------------ store failures
\* A SecureStore call that rejects has no effect on the store.

\* the calls that begin with `await getServers()`
GetServersCallers(p) ==
  { Begin(p, op, NoEntry) : op \in {"getServers", "getN8nConfig", "hasN8nConfig"} }
    \cup { Begin(p, "saveServer", config) : config \in ConcConfigInputs }
    \cup { Begin(p, "removeServer", [NoEntry EXCEPT !.id = id]) : id \in KnownIds }
    \cup { [Begin(p, "apiRequest", NoEntry) EXCEPT !.endpoint = endpoint] : endpoint \in Endpoints }

\* line 194 rejects
getServersReadRejects(p) ==
  /\ CanCall(p)
  /\ callsLeft' = callsLeft - 1
  /\ \E pr \in GetServersCallers(p) :
       getServersCatch(p, [Failed(pr, "get") EXCEPT !.listReadFailed = TRUE])
  /\ UNCHANGED ui

\* line 200, 201, 210 or 211 rejects
getServersStoreRejects(p) ==
  /\ proc[p].pc \in {"gs_url", "gs_key", "gs_save", "gs_active"}
  /\ getServersCatch(p, Failed(proc[p], IF proc[p].pc \in {"gs_url", "gs_key"} THEN "get" ELSE "set"))
  /\ UNCHANGED <<callsLeft, ui>>

\* line 256 or 260 rejects: saveServer has no try block
saveServerStoreRejects(p) ==
  /\ proc[p].pc \in {"ss_active", "ss_save"}
  /\ proc' = [proc EXCEPT ![p] = Return(Failed(proc[p], "set"), Rejected("Error"))]
  /\ UNCHANGED <<store, nextUuid, callsLeft, strayActivate, fetches, flagHistory, ui>>

\* line 269, 272, 275 or 277 rejects: removeServer has no try block
removeServerStoreRejects(p) ==
  /\ proc[p].pc \in {"rs_save", "rs_get", "rs_set", "rs_del"}
  /\ proc' = [proc EXCEPT ![p] =
       Return(Failed(proc[p], IF proc[p].pc = "rs_get" THEN "get"
                              ELSE IF proc[p].pc = "rs_del" THEN "delete" ELSE "set"),
              Rejected("Error"))]
  /\ UNCHANGED <<store, nextUuid, callsLeft, strayActivate, fetches, flagHistory, ui>>

\* line 304 rejects: getN8nConfig catches, lines 312-315
getN8nConfigStoreRejects(p) ==
  /\ proc[p].pc = "gc_get"
  /\ proc' = [proc EXCEPT ![p] =
       AfterGetN8nConfig(Failed(proc[p], "get"), [kind |-> "null", list |-> <<>>, str |-> Absent])]
  /\ UNCHANGED <<store, nextUuid, callsLeft, strayActivate, fetches, flagHistory, ui>>

\* line 286 rejects
setActiveServerIdRejects(p) ==
  /\ CanCall(p)
  /\ callsLeft' = callsLeft - 1
  /\ \E id \in KnownIds :
       proc' = [proc EXCEPT ![p] =
         Return(Failed(Begin(p, "setActiveServerId", [NoEntry EXCEPT !.id = id]), "set"),
                Rejected("Error"))]
  /\ UNCHANGED <<store, nextUuid, strayActivate, fetches, flagHistory, ui>>

\* line 293 rejects: getActiveServerId has no try block
getActiveServerIdRejects(p) ==
  /\ CanCall(p)
  /\ callsLeft' = callsLeft - 1
  /\ proc' = [proc EXCEPT ![p] =
       Return(Failed(Begin(p, "getActiveServerId", NoEntry), "get"), Rejected("Error"))]
  /\ UNCHANGED <<store, nextUuid, strayActivate, fetches, flagHistory, ui>>

\* line 171 rejects: isOnboardingCompleted has no try block
isOnboardingCompletedRejects(p) ==
  /\ CanCall(p)
  /\ callsLeft' = callsLeft - 1
  /\ proc' = [proc EXCEPT ![p] =
       Return(Failed(Begin(p, "isOnboardingCompleted", NoEntry), "get"), Rejected("Error"))]
  /\ UNCHANGED <<store, nextUuid, strayActivate, fetches, flagHistory, ui>>

\* line 179 or 186 rejects
onboardingWriteRejects(p) ==
  /\ CanCall(p)
  /\ callsLeft' = callsLeft - 1
  /\ \E op \in {"setOnboardingCompleted", "resetOnboarding"} :
       proc' = [proc EXCEPT ![p] =
         Return(Failed(Begin(p, op, NoEntry), IF op = "resetOnboarding" THEN "delete" ELSE "set"),
                Rejected("Error"))]
  /\ UNCHANGED <<store, nextUuid, strayActivate, fetches, flagHistory, ui>>

Call(p) ==
  \/ getServers(p)
  \/ \E config \in ConfigInputs : saveServer(p, config)
  \/ \E id \in KnownIds : removeServer(p, id)
  \/ getN8nConfig(p)
  \/ hasN8nConfig(p)
  \/ \E id \in KnownIds : setActiveServerId(p, id)
  \/ getActiveServerId(p)
  \/ \E endpoint \in Endpoints : apiRequest(p, endpoint)
  \/ isOnboardingCompleted(p)
  \/ setOnboardingCompleted(p)
  \/ resetOnboarding(p)

\* the store calls awaited inside the storage functions
StoreStep(p) ==
  \/ getServersLegacyUrl(p)
  \/ getServersLegacyKey(p)
  \/ getServersMigrateList(p)
  \/ getServersMigrateActive(p)
  \/ saveServerSetActive(p)
  \/ saveServerWrite(p)
  \/ removeServerWrite(p)
  \/ removeServerReadActive(p)
  \/ removeServerRepoint(p)
  \/ removeServerClear(p)
  \/ getN8nConfigReadActive(p)

Step(p) ==
  \/ StoreStep(p)
  \/ \E outcome \in FetchOutcomes : apiRequestFetch(p, outcome)

\* calls never overlap: one caller, each call runs to completion before the next
Next == \E p \in SeqProcs : Call(p) \/ Step(p)

Spec == Init /\ [][Next]_vars

\* calls of different callers interleave at every await; the overlapping
\* callers start from a store without or with a complete legacy pair
InitConc ==
  InitFrom({ <<Absent, Absent>>, <<"https://old.test", "oldkey">> }, MaxConcCalls)

CallConc(p) ==
  \/ getServers(p)
  \/ \E config \in ConcConfigInputs : saveServer(p, config)
  \/ \E id \in KnownIds : removeServer(p, id)
  \/ getN8nConfig(p)
  \/ \E id \in KnownIds : setActiveServerId(p, id)

NextConc == \E p \in Procs : CallConc(p) \/ StoreStep(p)

SpecConc == InitConc /\ [][NextConc]_vars

\* calls never overlap and any store call may reject; the list key may hold
\* text that is not JSON
InitFail ==
  /\ \E legacy \in LegacyPairs, item \in {NoItem, Unparsable} :
       store = [EmptyStore(legacy) EXCEPT !.servers = item]
  /\ proc = [p \in Procs |-> IdleProc]
  /\ nextUuid = 0
  /\ callsLeft = MaxFailCalls
  /\ strayActivate = FALSE
  /\ fetches = <<>>
  /\ flagHistory = "none"
  /\ ui = InitUi

Fault(p) ==
  \/ getServersReadRejects(p)
  \/ getServersStoreRejects(p)
  \/ saveServerStoreRejects(p)
  \/ removeServerStoreRejects(p)
  \/ getN8nConfigStoreRejects(p)
  \/ setActiveServerIdRejects(p)
  \/ getActiveServerIdRejects(p)
  \/ isOnboardingCompletedRejects(p)
  \/ onboardingWriteRejects(p)

NextFail == \E p \in SeqProcs : Call(p) \/ Step(p) \/ Fault(p)

SpecFail == InitFail /\ [][NextFail]_vars

\* the setup screen, one handler at a time, on a store without or with a
\* complete legacy pair
InitForm ==
  InitFrom({ <<Absent, Absent>>, <<"https://old.test", "oldkey">> }, MaxTyped)

Form(p) ==
  \/ mount(p)
  \/ loadDataReadActive(p)
  \/ handleAddNew(p)
  \/ handleEdit(p)
  \/ typeForm(p)
  \/ handleSave(p)
  \/ handleSaveSaved(p)

FormStep(p) ==
  \/ getServersLegacyUrl(p)
  \/ getServersLegacyKey(p)
  \/ getServersMigrateList(p)
  \/ getServersMigrateActive(p)
  \/ saveServerSetActive(p)
  \/ saveServerWrite(p)

NextForm == \E p \in SeqProcs : Form(p) \/ FormStep(p)

SpecForm == InitForm /\ [][NextForm]_vars

\* the whole setup screen, one handler at a time, where store calls may reject
InitSetup ==
  /\ \E legacy \in { <<Absent, Absent>>, <<"https://old.test", "oldkey">> } :
       store = EmptyStore(legacy)
  /\ proc = [p \in Procs |-> IdleProc]
  /\ nextUuid = 0
  /\ callsLeft = MaxSetupTyped
  /\ strayActivate = FALSE
  /\ fetches = <<>>
  /\ flagHistory = "none"
  /\ ui = [InitUi EXCEPT !.faultsLeft = MaxStoreFaults]

Setup(p) ==
  \/ mount(p)
  \/ loadDataReadActive(p)
  \/ handleAddNew(p)
  \/ handleEdit(p)
  \/ typeFormSetup(p)
  \/ goBackToList(p)
  \/ handleSave(p)
  \/ handleSaveSaved(p)
  \/ handleActivate(p)
  \/ handleDelete(p)
  \/ handleDeleteRemoved(p)

SetupStep(p) ==
  \/ getServersLegacyUrl(p)
  \/ getServersLegacyKey(p)
  \/ getServersMigrateList(p)
  \/ getServersMigrateActive(p)
  \/ saveServerSetActive(p)
  \/ saveServerWrite(p)
  \/ removeServerWrite(p)
  \/ removeServerReadActive(p)
  \/ removeServerRepoint(p)
  \/ removeServerClear(p)
  \/ setupStoreRejects(p)

NextSetup == \E p \in SeqProcs : Setup(p) \/ SetupStep(p)

SpecSetup == InitSetup /\ [][NextSetup]_vars

\* the home screen from its mount, on the stores an earlier run of the app can
\* have left: the flag set or not, every legacy pair, and no list, text that is
\* not JSON, an empty list or one server with or without an active id
IndexLists == { NoItem, Unparsable, JSONstringify(<<>>),
                JSONstringify(<<[id |-> "x", name |-> "A", serverUrl |-> "https://a.test",
                                 apiKey |-> "k"]>>) }

InitIndex ==
  /\ \E legacy \in LegacyPairs, item \in IndexLists, flag \in {Absent, "true"},
        active \in {Absent, "x"} :
       /\ active = "x" => (item.kind = "json" /\ item.list # <<>>)
       /\ store = [EmptyStore(legacy) EXCEPT !.servers = item, !.onboarding = flag,
                                             !.active = active]
  /\ proc = [p \in Procs |-> IdleProc]
  /\ nextUuid = 0
  /\ callsLeft = MaxQueries
  /\ strayActivate = FALSE
  /\ fetches = <<>>
  /\ flagHistory = "none"
  /\ ui = [InitUi EXCEPT !.faultsLeft = MaxStoreFaults]

Index(p) ==
  \/ checkConfig(p)
  \/ checkConfigHasConfig(p)
  \/ checkConfigSettled(p)
  \/ workflowsQuery(p)

IndexStep(p) ==
  \/ getServersLegacyUrl(p)
  \/ getServersLegacyKey(p)
  \/ getServersMigrateList(p)
  \/ getServersMigrateActive(p)
  \/ getN8nConfigReadActive(p)
  \/ \E outcome \in FetchOutcomes : apiRequestFetch(p, outcome)
  \/ setupStoreRejects(p)
  \/ getN8nConfigStoreRejects(p)

NextIndex == \E p \in SeqProcs : Index(p) \/ IndexStep(p)

SpecIndex == InitIndex /\ [][NextIndex]_vars

\* ------------------------------------------------------------------ properties
Done(p, op) == proc[p].pc = "done" /\ proc[p].op = op

\* both legacy values present and non-empty while the list key is absent
Migratable(st) == ~KeyPresent(st) /\ Truthy(st.url) /\ Truthy(st.key)

\* the entry migration is to synthesize from store st when n ids were generated before
MigratedEntry(st, n) ==
  [id |-> UUIDS[n + 1], name |-> "My n8n Server", serverUrl |-> st.url, apiKey |-> st.key]

\* the registry a call starting in store st works on
RegistryOf(st, n) == IF Migratable(st) THEN <<MigratedEntry(st, n)>> ELSE StoredList(st)

Without(list, id) == SelectSeq(list, LAMBDA e : e.id # id)

ActiveIdValid == store.active = Absent \/ store.active \in Ids(StoredList(store))

\* C1: whenever no call is in flight and setActiveServerId was only ever given
\* ids of stored entries, the stored active id is absent or is the id of an
\* entry of the stored list.
C1_ActivePointerValid ==
  ((\A p \in Procs : Quiescent(p)) /\ ~strayActivate) => ActiveIdValid

\* the active entry of a two-entry list was removed and the pointer moved on
C1_Witness ==
  /\ Done(1, "removeServer")
  /\ ~strayActivate
  /\ proc[1].pre.active = proc[1].arg.id
  /\ Len(StoredList(proc[1].pre)) = 2
  /\ store.active \in Ids(StoredList(store))

\* C2: no two entries of the stored list have the same id, in every state,
\* also while calls of several callers overlap.
C2_UniqueIds ==
  \A i, j \in 1..Len(StoredList(store)) :
    i # j => StoredList(store)[i].id # StoredList(store)[j].id

\* an update in place of one entry of a two-entry list has completed
C2_Witness ==
  \E p \in Procs :
    /\ Done(p, "saveServer")
    /\ proc[p].arg.id \in Ids(StoredList(proc[p].pre))
    /\ Len(StoredList(store)) = 2

\* the id of the entry a completed saveServer call added
AddedId(pr) == IF Truthy(pr.arg.id) THEN pr.arg.id ELSE UUIDS[pr.preUuid + 1]

\* C3: after a saveServer call that found the registry empty, with or without
\* an id in the config, the stored active id is the id of the entry it added.
C3_FirstEntryActive ==
  \A p \in SeqProcs :
    (Done(p, "saveServer") /\ RegistryOf(proc[p].pre, proc[p].preUuid) = <<>>)
      => store.active = AddedId(proc[p])

\* C4: after removeServer(id) where id was the stored active id, the stored
\* list is the previous list without the entry id, and the stored active id is
\* the first remaining entry's id, or is deleted when nothing remains.
C4_RemovalRepair ==
  \A p \in SeqProcs :
    (Done(p, "removeServer") /\ proc[p].pre.active = proc[p].arg.id)
      => LET rest == Without(RegistryOf(proc[p].pre, proc[p].preUuid), proc[p].arg.id)
         IN /\ KeyPresent(store)
            /\ StoredList(store) = rest
            /\ IF rest # <<>> THEN store.active = rest[1].id ELSE store.active = Absent

\* [X, Y] with X active, X removed: Y is stored alone and Y is active
C4_Witness ==
  /\ Done(1, "removeServer")
  /\ proc[1].pre.active = proc[1].arg.id
  /\ Len(StoredList(proc[1].pre)) = 2
  /\ StoredList(proc[1].pre)[1].id = proc[1].arg.id
  /\ StoredList(store) = <<StoredList(proc[1].pre)[2]>>
  /\ store.active = StoredList(proc[1].pre)[2].id

\* C5: getServers migrates exactly when the list key is absent and both legacy
\* values are non-empty: it then stores a one-entry list (fresh id, name
\* "My n8n Server", the legacy URL and key), makes that id active and returns
\* the entry; with the list key absent otherwise it returns [] and writes
\* nothing; with the key present it returns the stored list and writes
\* nothing.  The legacy keys keep their values.
C5_MigrationRule ==
  \A p \in SeqProcs :
    Done(p, "getServers") =>
      LET pre == proc[p].pre
          e   == MigratedEntry(pre, proc[p].preUuid)
      IN /\ store.url = pre.url /\ store.key = pre.key
         /\ Migratable(pre) =>
              /\ store = [pre EXCEPT !.servers = [kind |-> "json", list |-> <<e>>],
                                     !.active = e.id]
              /\ proc[p].res.list = <<e>>
              /\ e.id \notin Ids(StoredList(pre)) \cup {pre.active} \cup SuppliedIds
              /\ \A k \in 1..proc[p].preUuid : UUIDS[k] # e.id
         /\ ~Migratable(pre) =>
              /\ store = pre
              /\ proc[p].res.list = StoredList(pre)
              /\ (~KeyPresent(pre) => proc[p].res.list = <<>>)

\* a getServers call has migrated a legacy pair
C5_Witness ==
  /\ Done(1, "getServers")
  /\ Migratable(proc[1].pre)
  /\ Len(StoredList(store)) = 1
  /\ store.active = StoredList(store)[1].id

\* C6: of two getServers calls in a row, the first on a store with both legacy
\* values and no list key, the second returns the same single entry as the
\* first and the stored list still has exactly one entry.
C6_MigrationIdempotent ==
  \A p \in SeqProcs :
    (Done(p, "getServers") /\ proc[p].prev.op = "getServers" /\ Migratable(proc[p].prev.pre))
      => /\ proc[p].res.list = proc[p].prev.res.list
         /\ Len(proc[p].res.list) = 1
         /\ Len(StoredList(store)) = 1

\* the second of two getServers calls in a row has returned
C6_Witness ==
  /\ Done(1, "getServers")
  /\ proc[1].prev.op = "getServers"
  /\ Migratable(proc[1].prev.pre)
  /\ proc[1].res.list = StoredList(store)

\* an empty result of op
EmptyResult(op, res) ==
  CASE op = "getServers"   -> res.kind = "list" /\ res.list = <<>>
    [] op = "hasN8nConfig" -> res.kind = "false"
    [] op = "getN8nConfig" -> res.kind = "null"

\* C7: when the list key holds the empty list and both legacy values are
\* still non-empty, getServers, hasN8nConfig and getN8nConfig report an empty
\* registry and leave the store as it is (no entry is re-created).
C7_NoRemigration ==
  \A p \in SeqProcs :
    ( /\ proc[p].pc = "done"
      /\ proc[p].op \in {"getServers", "hasN8nConfig", "getN8nConfig"}
      /\ KeyPresent(proc[p].pre) /\ StoredList(proc[p].pre) = <<>>
      /\ Truthy(proc[p].pre.url) /\ Truthy(proc[p].pre.key) )
      => /\ EmptyResult(proc[p].op, proc[p].res)
         /\ store = proc[p].pre

\* the migrated entry was removed as the last server, then the list was read
C7_Witness ==
  /\ Done(1, "getServers")
  /\ proc[1].prev.op = "removeServer"
  /\ Len(StoredList(proc[1].prev.pre)) = 1
  /\ KeyPresent(proc[1].pre) /\ StoredList(proc[1].pre) = <<>>
  /\ Truthy(proc[1].pre.url) /\ Truthy(proc[1].pre.key)

\* C8: on a non-empty registry getN8nConfig returns the entry whose id is the
\* stored active id when there is one, and the first entry otherwise.
C8_ResolverSelection ==
  \A p \in SeqProcs :
    (Done(p, "getN8nConfig") /\ RegistryOf(proc[p].pre, proc[p].preUuid) # <<>>)
      => LET L == RegistryOf(proc[p].pre, proc[p].preUuid)
             a == IF Migratable(proc[p].pre) THEN L[1].id ELSE proc[p].pre.active
         IN /\ proc[p].res.kind = "config"
            /\ IF \E i \in 1..Len(L) : L[i].id = a
               THEN \E i \in 1..Len(L) : L[i].id = a /\ proc[p].res.list = <<L[i]>>
               ELSE proc[p].res.list = <<L[1]>>

\* the active id matched an entry that is not the first
C8_Witness ==
  /\ Done(1, "getN8nConfig")
  /\ Len(StoredList(proc[1].pre)) = 2
  /\ proc[1].pre.active = StoredList(proc[1].pre)[2].id
  /\ proc[1].res.list = <<StoredList(proc[1].pre)[2]>>

\* the stored list is [Y] and the stored active id is some X that is not Y's
StalePointer(st) ==
  /\ KeyPresent(st) /\ Len(StoredList(st)) = 1
  /\ Truthy(st.active) /\ st.active \notin Ids(StoredList(st))

\* C9: with the stored list [Y] and a stored active id X of no entry,
\* getN8nConfig returns Y and the stored active id is still X afterwards.
C9_StaleFallbackKeepsPointer ==
  \A p \in SeqProcs :
    (Done(p, "getN8nConfig") /\ StalePointer(proc[p].pre))
      => /\ proc[p].res.list = <<StoredList(proc[p].pre)[1]>>
         /\ store.active = proc[p].pre.active
         /\ StoredList(store) = StoredList(proc[p].pre)

\* the resolver has answered on a stale pointer
C9_Witness ==
  /\ Done(1, "getN8nConfig")
  /\ StalePointer(proc[1].pre)
  /\ StalePointer(store)

\* C10 as stated: getN8nConfig leaves every store key unchanged in every store
\* state, a store with legacy values and no list key included.
C10_ReadOnlyAlways ==
  \A p \in SeqProcs : Done(p, "getN8nConfig") => store = proc[p].pre

\* C10 amended: getN8nConfig leaves every store key unchanged unless the list
\* key is absent and both legacy values are non-empty; in that case it writes
\* the migrated one-entry list and its id as the active id, and nothing else.
C10_ReadOnlyUnlessMigrating ==
  \A p \in SeqProcs :
    Done(p, "getN8nConfig") =>
      IF Migratable(proc[p].pre)
      THEN store = [proc[p].pre EXCEPT
                      !.servers = [kind |-> "json",
                                   list |-> <<MigratedEntry(proc[p].pre, proc[p].preUuid)>>],
                      !.active = MigratedEntry(proc[p].pre, proc[p].preUuid).id]
      ELSE store = proc[p].pre

\* the resolver fell back to the first of two entries with no active id stored
C10_Witness ==
  /\ Done(1, "getN8nConfig")
  /\ Len(StoredList(proc[1].pre)) = 2
  /\ proc[1].pre.active = Absent
  /\ store = proc[1].pre

FreshStore == EmptyStore(<<Absent, Absent>>)

\* C11: on a store with no legacy keys and no list key hasN8nConfig returns
\* false and getN8nConfig returns null, and neither writes to the store.
C11_NoConfigurationGate ==
  \A p \in SeqProcs :
    /\ (Done(p, "hasN8nConfig") /\ proc[p].pre = FreshStore)
         => (proc[p].res.kind = "false" /\ store = FreshStore)
    /\ (Done(p, "getN8nConfig") /\ proc[p].pre = FreshStore)
         => (proc[p].res.kind = "null" /\ store = FreshStore)

\* hasN8nConfig has answered on a fresh store, after getN8nConfig had
C11_Witness ==
  /\ Done(1, "hasN8nConfig")
  /\ proc[1].pre = FreshStore
  /\ proc[1].prev.op = "getN8nConfig"
  /\ proc[1].prev.pre = FreshStore
  /\ proc[1].prev.res.kind = "null"

\* C16: saveServer with the id of a stored entry keeps the length and order
\* of the list, leaves every other entry and the active id as they were, and
\* in the matched entry keeps the id, takes each field the config supplies
\* and keeps each field it does not supply.
C16_UpdateOverlay ==
  \A p \in SeqProcs :
    (Done(p, "saveServer") /\ proc[p].arg.id \in Ids(StoredList(proc[p].pre)))
      => LET before == StoredList(proc[p].pre)
             after  == StoredList(store)
             config == proc[p].arg
         IN /\ Len(after) = Len(before)
            /\ store.active = proc[p].pre.active
            /\ \A i \in 1..Len(before) :
                 IF before[i].id = config.id
                 THEN /\ after[i].id = before[i].id
                      /\ \A f \in {"name", "serverUrl", "apiKey"} :
                           after[i][f] = IF config[f] # Absent THEN config[f] ELSE before[i][f]
                 ELSE after[i] = before[i]

\* the second of two entries got a new URL and kept its name
C16_Witness ==
  /\ Done(1, "saveServer")
  /\ Len(StoredList(proc[1].pre)) = 2
  /\ proc[1].arg.id = StoredList(proc[1].pre)[2].id
  /\ proc[1].arg.name = Absent
  /\ StoredList(store)[2].name = StoredList(proc[1].pre)[2].name
  /\ StoredList(store)[2].serverUrl # StoredList(proc[1].pre)[2].serverUrl
  /\ StoredList(store)[2].serverUrl = proc[1].arg.serverUrl

\* C17: saveServer with no id, or with an id of no stored entry, appends
\* exactly one entry at the end and keeps all prior entries and their order;
\* the new entry has the supplied id, or else an id no entry had, carries the
\* config's URL and key, and is named "New Server" when neither id nor name
\* was given.
C17_Append ==
  \A p \in SeqProcs :
    LET before == RegistryOf(proc[p].pre, proc[p].preUuid)
        after  == StoredList(store)
        config == proc[p].arg
    IN (Done(p, "saveServer") /\ (~Truthy(config.id) \/ config.id \notin Ids(before)))
         => /\ Len(after) = Len(before) + 1
            /\ SubSeq(after, 1, Len(before)) = before
            /\ LET e == after[Len(after)]
               IN /\ e.serverUrl = config.serverUrl /\ e.apiKey = config.apiKey
                  /\ IF Truthy(config.id)
                     THEN e.id = config.id
                     ELSE /\ e.id \notin Ids(before) \cup SuppliedIds \cup {proc[p].pre.active}
                          /\ Truthy(e.id)
                  /\ (~Truthy(config.id) /\ ~Truthy(config.name)) => e.name = "New Server"
                  /\ Truthy(config.name) => e.name = config.name

\* an entry without id and name was appended behind a stored one
C17_Witness ==
  /\ Done(1, "saveServer")
  /\ proc[1].arg.id = Absent /\ proc[1].arg.name = Absent
  /\ Len(StoredList(proc[1].pre)) = 1
  /\ Len(StoredList(store)) = 2
  /\ StoredList(store)[1] = StoredList(proc[1].pre)[1]
  /\ StoredList(store)[2].name = "New Server"

\* a completed saveServer call that appended: no id, or an id the list it read lacked
Appended(p) ==
  /\ Done(p, "saveServer")
  /\ (~Truthy(proc[p].arg.id)
        \/ proc[p].arg.id \notin Ids(RegistryOf(proc[p].pre, proc[p].preUuid)))

\* the two calls issued so far are appends of p and q that read the same list
\* key value, and are not the same append of one supplied id
OverlappingAppends(p, q) ==
  /\ p # q
  /\ callsLeft = MaxConcCalls - 2
  /\ Appended(p) /\ Appended(q)
  /\ proc[p].pre.servers = proc[q].pre.servers
  /\ (Truthy(proc[p].arg.id) => proc[q].arg.id # proc[p].arg.id)

\* C12: when two saveServer calls that each append an entry overlap, so that
\* both read the list before either wrote it, both complete without error and
\* the stored list holds one new entry, not two: the list written last
\* replaces the other caller's, whose entry is lost.
C12_LostUpdate ==
  \A p, q \in Procs :
    OverlappingAppends(p, q)
      => /\ proc[p].res = Void /\ proc[q].res = Void
         /\ Len(StoredList(store)) =
              Len(RegistryOf(proc[p].pre, proc[p].preUuid)) + 1

\* two overlapping appends on an empty store have completed; the entry with
\* the supplied id is stored and the generated one is gone, or the reverse
C12_Witness ==
  \E p, q \in Procs :
    /\ OverlappingAppends(p, q)
    /\ proc[p].arg.id = Absent /\ Truthy(proc[q].arg.id)
    /\ proc[p].pre.servers = NoItem /\ ~Truthy(proc[p].pre.url)
    /\ Len(StoredList(store)) = 1

\* the entry a resolution starting in store st is to yield (registry not empty)
ResolvedFrom(st, n) ==
  LET L == RegistryOf(st, n)
      a == IF Migratable(st) THEN L[1].id ELSE st.active
  IN IF \E i \in 1..Len(L) : L[i].id = a
     THEN L[CHOOSE i \in 1..Len(L) : L[i].id = a]
     ELSE L[1]

\* C18: an apiRequest issues no fetch while its configuration is being
\* resolved; when the resolution yields null it rejects with N8nApiError and
\* has issued no fetch; otherwise it has issued exactly one fetch, to
\* <serverUrl>/api/v1<endpoint> of the resolved entry with that entry's apiKey
\* as X-N8N-API-KEY.
C18_ResolveThenFetchOnce ==
  \A p \in SeqProcs :
    /\ (proc[p].op = "apiRequest" /\ proc[p].pc # "done")
         => Len(fetches) = proc[p].preFetches
    /\ Done(p, "apiRequest")
         => IF RegistryOf(proc[p].pre, proc[p].preUuid) = <<>>
            THEN /\ proc[p].res = Rejected("N8nApiError")
                 /\ Len(fetches) = proc[p].preFetches
            ELSE LET e == ResolvedFrom(proc[p].pre, proc[p].preUuid)
                 IN /\ Len(fetches) = proc[p].preFetches + 1
                    /\ fetches[Len(fetches)] =
                         [url |-> <<e.serverUrl, "/api/v1", proc[p].endpoint>>,
                          key |-> e.apiKey]

\* a request went to the one stored entry, which the previous call had saved,
\* and was answered
C18_Witness ==
  /\ Done(1, "apiRequest")
  /\ Len(StoredList(proc[1].pre)) = 1
  /\ proc[1].prev.op = "saveServer"
  /\ Len(fetches) = 1
  /\ fetches[1].url = <<StoredList(proc[1].pre)[1].serverUrl, "/api/v1", "/executions">>
  /\ proc[1].res.kind = "data"

\* C19: the stored flag is the completion marker exactly when the most recent
\* of setOnboardingCompleted / resetOnboarding was setOnboardingCompleted
\* (absent on a fresh store and after a reset, whatever registry, pointer or
\* resolver operations ran in between), and isOnboardingCompleted answers
\* true exactly in that case.
C19_OnboardingFlag ==
  /\ store.onboarding = (IF flagHistory = "set" THEN "true" ELSE Absent)
  /\ \A p \in SeqProcs :
       Done(p, "isOnboardingCompleted")
         => (proc[p].res.kind = (IF flagHistory = "set" THEN "true" ELSE "false"))

\* isOnboardingCompleted answered false after a reset that followed a set
C19_Witness ==
  /\ Done(1, "isOnboardingCompleted")
  /\ proc[1].prev.op = "resetOnboarding"
  /\ proc[1].prev.pre.onboarding = "true"
  /\ proc[1].res.kind = "false"

ReadOps  == {"getServers", "getActiveServerId", "isOnboardingCompleted", "hasN8nConfig", "getN8nConfig"}
WriteOps == {"saveServer", "removeServer", "setActiveServerId"}

\* C13: a saveServer, removeServer or setActiveServerId call during which a
\* store set or delete rejected has rejected to its caller.
C13_WritesFailLoud ==
  \A p \in SeqProcs :
    (proc[p].pc = "done" /\ proc[p].op \in WriteOps /\ proc[p].writeFailed)
      => proc[p].res.kind = "rejected"

\* C14: getServers always settles with an array, and with the empty array
\* when the list key held unparsable text or any store call it issued (the
\* list read, a legacy read, a migration write) rejected.
C14_GetServersNeverThrows ==
  \A p \in SeqProcs :
    Done(p, "getServers")
      => /\ proc[p].res.kind = "list"
         /\ (proc[p].readFailed \/ proc[p].writeFailed \/ proc[p].pre.servers = Unparsable)
              => proc[p].res.list = <<>>

\* getServers returned [] although the migrated list had been written: the
\* write of the active id rejected
C14_Witness ==
  /\ Done(1, "getServers")
  /\ proc[1].writeFailed
  /\ Migratable(proc[1].pre)
  /\ KeyPresent(store) /\ Len(StoredList(store)) = 1
  /\ proc[1].res.list = <<>>

\* C15: a read operation during which a store get rejected has settled with
\* a value, not with a rejection.
C15_ReadsFailSoft ==
  \A p \in SeqProcs :
    (proc[p].pc = "done" /\ proc[p].op \in ReadOps /\ proc[p].readFailed)
      => proc[p].res.kind # "rejected"

\* the typed URL starts with http:// or https://, in any letter case
HttpTyped(t) == t.scheme \in {"https:", "http:", "HTTPS:"}

\* stripping /api/v1 leaves no host: the typed URL is <scheme>://api/v1
HostStripped(t) == t.authority = "api" /\ t.suffix = <<"/", "v1">>

SuffixOnly(scheme, authority, suffix) ==
  [scheme |-> scheme, authority |-> authority, suffix |-> suffix, pad |-> <<>>]

\* C20: for a typed URL on which handleSave has run with name and key
\* filled in: a URL that does not start with http:// or https:// (any
\* letter case) is rejected; a URL that does, with a host that parses and is
\* not eaten by the /api/v1 stripping, goes to saveServer; the serverUrl that
\* goes to saveServer is always scheme://host of what was typed, with no
\* white space, slash, path or query left. "https://n8n.example.com/" and
\* "https://n8n.example.com/workflow/abc123/extra" give
\* "https://n8n.example.com", "http://host:5678/api/v1/" gives
\* "http://host:5678", and "ftp://bad.example.com" is rejected.
C20_UrlNormalization ==
  LET t == ui.typed
      filled == trim(ui.name) # <<>> /\ trim(ui.apiKey) # <<>>
  IN (ui.verdict # "none" /\ t.authority # Absent)
       => /\ ui.serverUrl = Raw(t) => (ui.verdict = "fields" <=> ~filled)
          /\ (filled /\ ui.serverUrl = Raw(t) /\ ~HttpTyped(t)) => ui.verdict = "scheme"
          /\ (filled /\ ui.serverUrl = Raw(t) /\ HttpTyped(t))
               => (ui.verdict = "accepted"
                     <=> (hostOf(Lower(t.scheme), t.authority) # InvalidHost /\ ~HostStripped(t)))
          /\ ui.verdict = "accepted"
               => /\ HttpTyped(t)
                  /\ ui.sent = Origin(Lower(t.scheme), hostOf(Lower(t.scheme), t.authority))
                  /\ t = SuffixOnly("https:", "n8n.example.com", <<"/">>)
                       => ui.sent = "https://n8n.example.com"
                  /\ t = SuffixOnly("https:", "n8n.example.com",
                                    <<"/", "workflow", "/", "abc123", "/", "extra">>)
                       => ui.sent = "https://n8n.example.com"
                  /\ t = SuffixOnly("http:", "host:5678", <<"/", "api", "/", "v1", "/">>)
                       => ui.sent = "http://host:5678"
          /\ t = SuffixOnly("ftp:", "bad.example.com", <<>>) => ui.verdict # "accepted"

\* " https://n8n.example.com/workflow/abc123/extra " was typed and saved: the
\* store holds an entry for "https://n8n.example.com"
C20_Witness ==
  /\ ui.stage = "idle"
  /\ ui.verdict = "accepted"
  /\ ui.typed = [scheme |-> "https:", authority |-> "n8n.example.com",
                 suffix |-> <<"/", "workflow", "/", "abc123", "/", "extra">>, pad |-> <<" ">>]
  /\ \E i \in 1..Len(StoredList(store)) :
       StoredList(store)[i].serverUrl = "https://n8n.example.com"

\* C29 as stated: removeServer(id) with an id of no stored entry leaves the
\* stored entries, their order and the stored active id as they were, and
\* removeServer of a stored entry that is not the active one leaves the stored
\* active id as it was.
C29_RemoveFrame ==
  \A p \in SeqProcs :
    Done(p, "removeServer")
      => /\ proc[p].arg.id \notin Ids(StoredList(proc[p].pre))
              => /\ StoredList(store) = StoredList(proc[p].pre)
                 /\ store.active = proc[p].pre.active
         /\ (proc[p].arg.id \in Ids(StoredList(proc[p].pre))
               /\ proc[p].arg.id # proc[p].pre.active)
              => store.active = proc[p].pre.active

\* C29 amended: the first half holds when no migration is pending and id is
\* not the stored active id; the second half holds as stated.
C29_RemoveFrameSettled ==
  \A p \in SeqProcs :
    Done(p, "removeServer")
      => /\ (proc[p].arg.id \notin Ids(StoredList(proc[p].pre))
               /\ ~Migratable(proc[p].pre)
               /\ proc[p].arg.id # proc[p].pre.active)
              => /\ StoredList(store) = StoredList(proc[p].pre)
                 /\ store.active = proc[p].pre.active
         /\ (proc[p].arg.id \in Ids(StoredList(proc[p].pre))
               /\ proc[p].arg.id # proc[p].pre.active)
              => store.active = proc[p].pre.active

\* the second of two entries was removed while the first was active
C29_Witness ==
  /\ Done(1, "removeServer")
  /\ Len(StoredList(proc[1].pre)) = 2
  /\ proc[1].arg.id = StoredList(proc[1].pre)[2].id
  /\ proc[1].pre.active = StoredList(proc[1].pre)[1].id
  /\ store.active = proc[1].pre.active
  /\ Len(StoredList(store)) = 1

\* C30: whenever a call that does not overlap another writes the store, two
\* entries stored before and after keep their relative order, an entry whose
\* id was not stored before is last, and where removeServer repoints the
\* active id it takes the first entry of the list; so the first entry is
\* always the one that was added earliest among those still stored.
C30_InsertionOrder ==
  [][ LET old == StoredList(store)
          new == StoredList(store')
      IN /\ \A i, j \in 1..Len(old) : \A k, l \in 1..Len(new) :
              (old[i].id = new[k].id /\ old[j].id = new[l].id) => (i < j <=> k < l)
         /\ \A k \in 1..Len(new) : new[k].id \notin Ids(old) => k = Len(new)
         /\ \A p \in SeqProcs :
              (proc[p].pc = "rs_set" /\ store'.active # store.active)
                => (new = old /\ store'.active = old[1].id) ]_vars

\* the first of two entries was updated and is still the first
C30_Witness ==
  /\ Done(1, "saveServer")
  /\ Len(StoredList(proc[1].pre)) = 2
  /\ proc[1].arg.id = StoredList(proc[1].pre)[1].id
  /\ StoredList(store)[1].id = proc[1].arg.id
  /\ StoredList(store)[1] # StoredList(proc[1].pre)[1]
  /\ StoredList(store)[2] = StoredList(proc[1].pre)[2]

\* C23: a getN8nConfig call that started with a parsable, non-empty stored
\* list and whose read of the list key did not reject returns an entry of
\* that list, also when its read of the active id rejected; and after
\* hasN8nConfig answered true, getN8nConfig on the store it left is not null.
C23_NullOnlyWhenEmpty ==
  \A p \in SeqProcs :
    (Done(p, "getN8nConfig") /\ ~proc[p].listReadFailed)
      => /\ StoredList(proc[p].pre) # <<>>
              => /\ proc[p].res.kind = "config"
                 /\ \E i \in 1..Len(StoredList(proc[p].pre)) :
                      proc[p].res.list = <<StoredList(proc[p].pre)[i]>>
         /\ (proc[p].prev.op = "hasN8nConfig" /\ proc[p].prev.res.kind = "true")
              => proc[p].res.kind = "config"

\* C24: when saveServer or removeServer has rejected, the stored list and
\* the stored active id are what they were when the call started.
C24_NoPartialWrite ==
  \A p \in SeqProcs :
    (proc[p].pc = "done" /\ proc[p].op \in {"saveServer", "removeServer"}
       /\ proc[p].res.kind = "rejected")
      => /\ store.servers = proc[p].pre.servers
         /\ store.active = proc[p].pre.active

\* entries of before whose id is not id are all in after, unchanged
KeptExcept(before, after, id) ==
  \A i \in 1..Len(before) :
    before[i].id # id => \E k \in 1..Len(after) : after[k] = before[i]

\* C25: a saveServer call that resolved leaves every entry stored before,
\* other than the one with the config's id, stored and unchanged; a
\* removeServer(id) call that resolved leaves every entry stored before,
\* other than the one with that id, stored and unchanged; whether or not the
\* read of the list key inside the call rejected.
C25_NoCollateralLoss ==
  \A p \in SeqProcs :
    (proc[p].pc = "done" /\ proc[p].op \in {"saveServer", "removeServer"}
       /\ proc[p].res.kind # "rejected")
      => KeptExcept(StoredList(proc[p].pre), StoredList(store), proc[p].arg.id)

\* the entries of list that migration synthesized
MigratedIn(list) == SelectSeq(list, LAMBDA e : e.name = "My n8n Server")

\* C21: once two overlapping calls among saveServer, removeServer,
\* getServers and setActiveServerId (given an id of a stored entry) have
\* both completed, the stored active id is absent or is the id of a stored
\* entry.
C21_ConcurrentPointerSafe ==
  (/\ callsLeft = MaxConcCalls - 2
   /\ \A p \in Procs : Quiescent(p)
   /\ \A p \in Procs : proc[p].op \in {"none", "saveServer", "removeServer",
                                        "getServers", "setActiveServerId"}
   /\ ~strayActivate)
    => (store.active = Absent \/ store.active \in Ids(StoredList(store)))

\* C22: once two calls that both started on a store with the legacy pair
\* and no list key have completed, the stored list holds exactly one
\* migrated entry, the stored active id is its id, and each caller that
\* returns entries (getServers, getN8nConfig) returned the entry with that id.
C22_MigratesOnce ==
  \A p, q \in Procs :
    (/\ p # q
     /\ callsLeft = MaxConcCalls - 2
     /\ proc[p].pc = "done" /\ proc[q].pc = "done"
     /\ {proc[p].op, proc[q].op} \subseteq {"getServers", "getN8nConfig", "saveServer", "removeServer"}
     /\ Migratable(proc[p].pre) /\ Migratable(proc[q].pre))
      => LET M == MigratedIn(StoredList(store))
         IN /\ Len(M) = 1
            /\ store.active = M[1].id
            /\ \A r \in {p, q} :
                 proc[r].op \in {"getServers", "getN8nConfig"}
                   => (Len(proc[r].res.list) = 1 /\ proc[r].res.list[1].id = M[1].id)

\* ------------------------------------------------------------------ C26
RejectedVerdicts == {"fields", "scheme", "parse"}

\* C26: a step in which handleSave rejects the form (a blank field, no http(s)
\* scheme, or a URL that does not parse after stripping) starts no call,
\* changes no store key and leaves loading false; the store changes under a
\* saveServer call only for a form handleSave accepted; and whenever a handler
\* has returned (success, rejection or storage error) loading is false.
C26_RejectedInputNeverStored ==
  [][ /\ (ui'.verdict \in RejectedVerdicts /\ ui'.verdict # ui.verdict)
           => (store' = store /\ proc' = proc /\ nextUuid' = nextUuid
               /\ ~ui'.loading /\ ui'.stage = "idle")
      /\ \A p \in SeqProcs :
           (proc'[p].op = "saveServer" /\ (proc'[p] # proc[p] \/ store' # store))
             => ui'.verdict = "accepted"
      /\ (ui'.stage = "idle") => ~ui'.loading
      /\ (ui.stage = "saving" /\ ui'.stage = "idle") => ui'.alert = "Error"
    ]_vars

\* handleSave has rejected a URL that does not parse, on a screen that already
\* lists a server
C26_Witness ==
  /\ ui.verdict = "parse"
  /\ ui.alert = "URL Invalida"
  /\ ui.stage = "idle"
  /\ ~ui.loading
  /\ StoredList(store) # <<>>
  /\ ui.faultsLeft < MaxStoreFaults

\* ------------------------------------------------------------------ C28
\* C28: after a loadData() in which no store call rejected, on a store with a
\* non-empty list, the id in activeId is the id of the entry getN8nConfig
\* resolves from the same store.
C28_ShownActiveIsUsed ==
  \A p \in SeqProcs :
    (/\ ui.stage = "idle"
     /\ ui.loadClean
     /\ Done(p, "getActiveServerId")
     /\ proc[p].res.kind = "id"
     /\ StoredList(store) # <<>>)
      => ui.activeId = Resolve(StoredList(store), store.active).id

\* ------------------------------------------------------------------ C27
\* a server is configured: the list holds one, or the legacy pair will migrate
Configured(st) ==
  \/ StoredList(st) # <<>>
  \/ (st.servers = NoItem /\ Truthy(st.url) /\ Truthy(st.key))

\* how checkConfig must end when pr is the last storage call it made
Expected(pr) ==
  IF pr.op = "isOnboardingCompleted"
  THEN IF pr.readFailed THEN "/setup"
       ELSE IF pr.pre.onboarding # "true" THEN "/onboarding" ELSE "none"
  ELSE IF pr.pre.onboarding # "true" THEN "none"
       ELSE IF pr.readFailed \/ pr.writeFailed \/ ~Configured(pr.pre) THEN "/setup"
       ELSE "cleared"

\* C27: checkConfig ends in exactly one outcome: /onboarding when the flag is
\* not set, /setup when the flag is set and no server is configured or when a
\* store call throws, `checking` cleared when the flag is set and a server
\* exists; `checking` changes in no other step, and no apiRequest starts and no
\* fetch is issued while `checking` is still true.
C27_StartupGate ==
  [][ /\ (ui.index # "settled" /\ ui'.index = "settled")
           => \A p \in SeqProcs :
                /\ (IF ui'.checking THEN ui'.route ELSE "cleared") = Expected(proc'[p])
                /\ ~ui'.checking => ui'.route = "/"
      /\ (ui'.checking # ui.checking \/ ui'.route # ui.route)
           => (ui.index # "settled" /\ ui'.index = "settled")
      /\ (fetches' # fetches \/ \E p \in SeqProcs : (proc'[p].op = "apiRequest" /\ proc'[p] # proc[p]))
           => (~ui.checking /\ ui.index = "settled")
    ]_vars

\* checkConfig cleared `checking` on a store that migrated, and the workflows
\* query has issued its fetch
C27_Witness ==
  /\ ui.index = "settled"
  /\ ~ui.checking
  /\ ui.route = "/"
  /\ fetches # <<>>
  /\ nextUuid > 0
  /\ store.onboarding = "true"

====
